---------------------------- MODULE Spec2Model ----------------------------
(***************************************************************************)
(* ustring: a null-terminated string facade over uvector<char>, whose      *)
(* storage comes from a dalloc heap (src/src/ustring.cpp, explicit-heap    *)
(* build).  The model keeps the raw storage block of every buffer, stale   *)
(* and uninitialised cells included, so that what c_str() and strncmp read *)
(* is what the code reads.                                                 *)
(***************************************************************************)
EXTENDS Integers, Sequences, FiniteSets, TLC

\* ------------------------------------------------------------------ bounds
\* Largest storage block (in bytes) an explored call may end with, when every
\* request is granted and when the heap may refuse.
MaxCap == 8
MaxCapFail == 4
\* Longest byte run handed to append/assign/constructors.
MaxStr == 2
\* Largest resize/reserve target explored.
MaxTarget == 3
\* Most requests a heap that runs out during a call still grants in it.
MaxGrants == 1
\* Largest storage block while copies of a buffer are made and mutated.
MaxCapCopy == 4

\* The largest uint32_t, 2^32 - 1.  It is written as the largest integer the
\* model checker holds: nothing is done with it but comparing it with sizes
\* far below it and adding 1, which wraps.
Max32 == 2147483647

\* new_string_size + 1 in uint32_t.
Inc32(k) == IF k = Max32 THEN 0 ELSE k + 1

\* char values: 0 is the terminator, 1 stands for a letter.
Byte == {0, 1}
Letter == Byte \ {0}

\* The two heaps of the explicit-heap build.
Heaps == {1, 2}

RECURSIVE Fill(_, _)
Fill(k, v) == IF k <= 0 THEN <<>> ELSE <<v>> \o Fill(k - 1, v)

Prefix(s, k) == SubSeq(s, 1, k)

\* Byte runs of length 0..k.
RECURSIVE Runs(_, _)
Runs(S, k) == IF k = 0 THEN {<<>>}
              ELSE LET R == Runs(S, k - 1)
                   IN R \cup {Append(r, c) : r \in {q \in R : Len(q) = k - 1}, c \in S}

\* ------------------------------------------------------------------ arena
\* What the heap answers to the allocation requests of one call: the answers
\* to the first requests (pat), then one answer to every later request (rest).
\* A heap that runs out grants a number of requests and refuses the others.
AllGranted == [pat |-> <<>>, rest |-> TRUE]
Fates == {AllGranted} \cup {[pat |-> Fill(k, TRUE), rest |-> FALSE] : k \in 0..MaxGrants}

Granted(x) == IF x.fate.pat = <<>> THEN x.fate.rest ELSE Head(x.fate.pat)

\* The identity of a block the heap hands out during a call: no object held
\* it when the call began.  0 stands for no block.
NewBlock == 3

\* The request is answered: the answer is used up, a refusal is remembered.
Asked(x) == [x EXCEPT !.fate.pat = IF @ = <<>> THEN @ ELSE Tail(@),
                      !.refused = @ \/ ~Granted(x)]

\* -------------------------------------------------- uvector<char> (external)
\* An execution context x carries one uvector (d: the storage block, its
\* length being the capacity; blk: the identity of that block; from: the heap
\* the block was requested from; n: the number of stored elements; heap: the
\* heap the container is bound to), lost: whether a block was handed back to
\* a heap it did not come from, wild: whether an element of an empty
\* container was written, and the
\* heap's answers (fate), whether a request was refused, the value g found in
\* freshly allocated cells, and r, the boolean returned by the last call.

uv_size(x) == x.n

\* The container hands its block back to the heap it is bound to.
uv_release(x) ==
    [x EXCEPT !.lost = @ \/ (x.blk # 0 /\ x.from # x.heap), !.blk = 0, !.from = 0]

\* The destructor: the storage goes back to the heap.
uv_dtor(x) == [uv_release(x) EXCEPT !.d = <<>>, !.n = 0]
uv_capacity(x) == Len(x.d)
uv_empty(x) == x.n = 0

\* reserve: a block of c elements when the present one is smaller; the stored
\* elements move, the other cells hold whatever the heap held.
uv_reserve(x, c) ==
    IF c <= Len(x.d) THEN [x EXCEPT !.r = TRUE]
    ELSE IF Granted(x)
         THEN [uv_release(Asked(x)) EXCEPT
                   !.d = Prefix(x.d, x.n) \o Fill(c - x.n, x.g),
                   !.blk = NewBlock, !.from = x.heap, !.r = TRUE]
         ELSE [Asked(x) EXCEPT !.r = FALSE]

\* Capacity asked for by push_back on a full block (amortised growth).
GrowCap(c) == IF c = 0 THEN 1 ELSE 2 * c

uv_push_back(x, item) ==
    LET y == IF x.n = Len(x.d) THEN uv_reserve(x, GrowCap(Len(x.d)))
             ELSE [x EXCEPT !.r = TRUE]
    IN IF ~y.r THEN y
       ELSE [y EXCEPT !.d[y.n + 1] = item, !.n = y.n + 1, !.r = TRUE]

\* pop_back: the element count drops, the cell keeps its value.
uv_pop_back(x) ==
    IF x.n = 0 THEN [x EXCEPT !.r = FALSE]
    ELSE [x EXCEPT !.n = x.n - 1, !.r = TRUE]

\* clear: no element left, the block is kept.
uv_clear(x) == [x EXCEPT !.n = 0]

\* resize with fill value: new elements are copies of value.
uv_resize(x, c, value) ==
    IF c <= x.n THEN [x EXCEPT !.n = c, !.r = TRUE]
    ELSE LET y == uv_reserve(x, c)
         IN IF ~y.r THEN y
            ELSE [y EXCEPT !.d = Prefix(y.d, y.n) \o Fill(c - y.n, value)
                                 \o SubSeq(y.d, c + 1, Len(y.d)),
                           !.n = c, !.r = TRUE]

\* shrink_to_fit: the block is released when nothing is stored, otherwise
\* exchanged for one of exactly n elements.
uv_shrink_to_fit(x) ==
    IF x.n = Len(x.d) THEN [x EXCEPT !.r = TRUE]
    ELSE IF x.n = 0 THEN [uv_release(x) EXCEPT !.d = <<>>, !.r = TRUE]
    ELSE IF Granted(x) THEN [uv_release(Asked(x)) EXCEPT
                                !.d = Prefix(x.d, x.n), !.blk = NewBlock,
                                !.from = x.heap, !.r = TRUE]
    ELSE [Asked(x) EXCEPT !.r = FALSE]

\* back() = value: the last stored element is written.  A container that
\* stores nothing has no such element: the write goes outside its elements.
uv_set_back(x, value) ==
    IF x.n = 0 THEN [x EXCEPT !.wild = TRUE] ELSE [x EXCEPT !.d[x.n] = value]

\* at(i): element i, counted from 0.
uv_at(x, i) == x.d[i + 1]

\* front() and back(): the first and the last stored element.
uv_front(x) == x.d[1]
uv_back(x) == x.d[x.n]


\* ------------------------------------------------------------- ustring
\* A variant of size() that counts every stored byte.
size_with_terminator(x) == uv_size(x)

\* size(): the stored bytes without the terminator.
size(x) == IF uv_size(x) > 0 THEN uv_size(x) - 1 ELSE uv_size(x)

length(x) == size(x)

capacity(x) == uv_capacity(x)

empty(x) == uv_empty(x)

\* data()[i], i counted from 0.
data_at(x, i) == x.d[i + 1]

at(x, i) == uv_at(x, i)

front(x) == uv_front(x)

\* at(i) = value, data()[i] = value: a write through the reference or the
\* pointer the accessor returns.
data_write(x, i, value) == [x EXCEPT !.d[i + 1] = value, !.r = TRUE]

back(x) == uv_back(x)

\* back() = value: a write through the reference back() returns.
back_assign(x, value) == uv_set_back(x, value)

reserve(x, new_string_size) == uv_reserve(x, Inc32(new_string_size))

\* A variant of shrink_to_fit() that keeps the block and reports success.
shrink_to_fit_keeps_block(x) == [x EXCEPT !.r = TRUE]

shrink_to_fit(x) == uv_shrink_to_fit(x)

\* A variant of clear() that leaves the container as it is.
clear_nothing(x) == x

clear(x) == uv_clear(x)

\* A variant of push_back that leaves the old terminator where it is.
push_back_after_terminator(x, item) ==
    LET x2 == uv_push_back(x, item)
    IN IF ~x2.r THEN x2 ELSE uv_push_back(x2, 0)

push_back(x, item) ==
    LET x1 == IF uv_size(x) > 0 THEN uv_pop_back(x) ELSE [x EXCEPT !.r = TRUE]
    IN IF ~x1.r THEN x1
       ELSE LET x2 == uv_push_back(x1, item)
            IN IF ~x2.r THEN x2 ELSE uv_push_back(x2, 0)

\* The capacity of the container at the moment push_back stores item: after
\* the terminator is taken off and the container has made room for item.
push_back_stored_in(x, item) ==
    LET x1 == IF uv_size(x) > 0 THEN uv_pop_back(x) ELSE [x EXCEPT !.r = TRUE]
    IN uv_capacity(uv_push_back(x1, item))

\* A variant of pop_back that does not write the terminator back.
pop_back_unterminated(x) ==
    IF size(x) = 0 THEN [x EXCEPT !.r = FALSE]
    ELSE LET x1 == uv_pop_back(x)
         IN IF ~x1.r THEN x1 ELSE uv_pop_back(x1)

pop_back(x) ==
    IF size(x) = 0 THEN [x EXCEPT !.r = FALSE]
    ELSE LET x1 == uv_pop_back(x)
         IN IF ~x1.r THEN x1
            ELSE LET x2 == uv_pop_back(x1)
                 IN IF ~x2.r THEN x2 ELSE uv_push_back(x2, 0)

\* append(const char*): str is the run before the first zero byte.  The
\* results of push_back are dropped.
RECURSIVE append_cstr_loop(_, _, _)
append_cstr_loop(x, str, ind) ==
    IF ind > Len(str) THEN [x EXCEPT !.r = TRUE]
    ELSE append_cstr_loop(push_back(x, str[ind]), str, ind + 1)

append_cstr(x, str) ==
    IF str = <<>> THEN [x EXCEPT !.r = FALSE]
    ELSE append_cstr_loop(x, str, 1)

\* append(char*, uint32_t): the first str_len bytes of str.
RECURSIVE append_len_loop(_, _, _, _)
append_len_loop(x, str, str_len, i) ==
    IF i >= str_len THEN [x EXCEPT !.r = TRUE]
    ELSE LET y == push_back(x, str[i + 1])
         IN IF ~y.r THEN y ELSE append_len_loop(y, str, str_len, i + 1)

\* A variant of append(char*, uint32_t) that takes the whole run, whatever
\* str_len says.
append_len_whole_run(x, str, str_len) == append_len_loop(x, str, Len(str), 0)

\* A variant of append(char*, uint32_t) that treats a length of 0 as the
\* null-delimited form treats an empty string.
append_len_refuses_nothing(x, str, str_len) ==
    IF str_len = 0 THEN [x EXCEPT !.r = FALSE]
    ELSE append_len_loop(x, str, str_len, 0)

append_len(x, str, str_len) == append_len_loop(x, str, str_len, 0)

append_ch(x, ch) == push_back(x, ch)

\* push_back of every byte of a run, then m calls of pop_back (the loops of
\* StressTest.RapidPushPop).
RECURSIVE push_run(_, _, _)
push_run(x, run, i) ==
    IF i >= Len(run) THEN x
    ELSE LET y == push_back(x, run[i + 1])
         IN IF ~y.r THEN y ELSE push_run(y, run, i + 1)

RECURSIVE pop_run(_, _)
pop_run(x, m) ==
    IF m = 0 THEN x
    ELSE LET y == pop_back(x)
         IN IF ~y.r THEN y ELSE pop_run(y, m - 1)

\* strncmp(p, q, n) = 0 over two storage blocks.
RECURSIVE strncmp_eq(_, _, _, _)
strncmp_eq(p, q, n, i) ==
    IF i >= n THEN TRUE
    ELSE IF p[i + 1] # q[i + 1] THEN FALSE
    ELSE IF p[i + 1] = 0 THEN TRUE
    ELSE strncmp_eq(p, q, n, i + 1)

\* A variant of operator== that answers false for an operand without
\* storage.
op_eq_needs_storage(x, str) ==
    IF Len(x.d) = 0 \/ Len(str.d) = 0 THEN FALSE
    ELSE IF size(x) # size(str) THEN FALSE
    ELSE strncmp_eq(x.d, str.d, size(str), 0)

op_eq(x, str) ==
    IF size(x) # size(str) THEN FALSE
    ELSE strncmp_eq(x.d, str.d, size(str), 0)

op_ne(x, name) == ~op_eq(x, name)

\* resize, shrinking branch: size() is read again at every loop test.
RECURSIVE resize_shrink_loop(_, _, _)
resize_shrink_loop(x, new_str_size, i) ==
    IF i < size(x) - new_str_size
    THEN resize_shrink_loop(pop_back(x), new_str_size, i + 1)
    ELSE [x EXCEPT !.r = TRUE]

\* resize, growing branch after the capacity test.
resize_fill(x, new_str_size, value) ==
    LET y == uv_resize(x, Inc32(new_str_size), value)
    IN IF ~y.r THEN y
       ELSE uv_pop_back(uv_set_back(y, 0))

\* A variant of resize that takes the terminator off before it reserves, as
\* push_back does before it stores.
resize_pop_first(x, new_str_size, value) ==
    IF size(x) = new_str_size THEN [x EXCEPT !.r = TRUE]
    ELSE IF size(x) > new_str_size THEN resize_shrink_loop(x, new_str_size, 0)
    ELSE IF capacity(x) > new_str_size THEN resize_fill(x, new_str_size, value)
    ELSE LET x1 == IF uv_size(x) > 0 THEN uv_pop_back(x) ELSE x
             y == reserve(x1, new_str_size)
         IN IF ~y.r THEN y ELSE resize_fill(y, new_str_size, value)

resize(x, new_str_size, value) ==
    IF size(x) = new_str_size THEN [x EXCEPT !.r = TRUE]
    ELSE IF size(x) > new_str_size THEN resize_shrink_loop(x, new_str_size, 0)
    ELSE IF capacity(x) > new_str_size THEN resize_fill(x, new_str_size, value)
    ELSE LET y == reserve(x, new_str_size)
         IN IF ~y.r THEN y ELSE resize_fill(y, new_str_size, value)

resize1(x, new_str_size) == resize(x, new_str_size, 0)

\* A variant of assign(const char*) that clears before it looks at str.
assign_cstr_clear_first(x, str) ==
    IF str = <<>> THEN [uv_clear(x) EXCEPT !.r = FALSE]
    ELSE append_len(uv_clear(x), str, Len(str))

\* assign(const char*)
assign_cstr(x, str) ==
    IF str = <<>> THEN [x EXCEPT !.r = FALSE]
    ELSE append_len(uv_clear(x), str, Len(str))

\* A variant of assign(char*, uint32_t) that keeps what the receiver holds.
assign_len_keep(x, str, str_len) == append_len(x, str, str_len)

\* assign(char*, uint32_t)
assign_len(x, str, str_len) == append_len(uv_clear(x), str, str_len)

\* A fresh object on heap h, sharing the heap's answers with x.
Fresh(x, h) ==
    [x EXCEPT !.d = <<>>, !.blk = 0, !.from = 0, !.n = 0, !.heap = h, !.r = TRUE]

\* The heap's answers as they stand after y ran.
After(x, y) == [x EXCEPT !.fate = y.fate, !.refused = y.refused]

\* push_back of string.data()[i] for i < string.size(), results dropped: the
\* loop of the copy constructor and of operator=.
RECURSIVE copy_loop(_, _, _)
copy_loop(x, string, i) ==
    IF i >= size(string) THEN x
    ELSE copy_loop(push_back(x, data_at(string, i)), string, i + 1)

\* A variant of ustring(const ustring&) that copies the members: the new
\* object refers to the storage block of string.
copy_ctor_memberwise(x, string) ==
    [x EXCEPT !.d = string.d, !.blk = string.blk, !.from = string.from,
              !.n = string.n, !.heap = string.heap, !.r = TRUE]

\* A variant of ustring(const ustring&) that builds the copy on the heap the
\* receiver was bound to.
copy_ctor_own_heap(x, string) == copy_loop(Fresh(x, x.heap), string, 0)

\* ustring(const ustring&)
copy_ctor(x, string) == copy_loop(Fresh(x, string.heap), string, 0)

\* A variant of append(ustring) that takes the stored byte count, terminator
\* included, for the length of str.
append_ustring_stored_count(x, src) ==
    LET str == copy_ctor(x, src)
    IN append_len(After(x, str), str.d, uv_size(str))

\* append(ustring str): str is a copy made by the caller.
append_ustring(x, src) ==
    LET str == copy_ctor(x, src)
    IN append_len(After(x, str), str.d, size(str))

\* operator+=(ustring str): str is a copy made by the caller, handed on to
\* append(ustring), which receives a copy of it.
op_pluseq_ustring(x, src) ==
    LET str == copy_ctor(x, src)
    IN append_ustring(After(x, str), str)

\* A variant of assign(ustring) without the copy: the bytes are read from the
\* receiver's own storage while it is rewritten.
RECURSIVE assign_alias_loop(_, _, _)
assign_alias_loop(x, str_len, i) ==
    IF i >= str_len THEN [x EXCEPT !.r = TRUE]
    ELSE LET y == push_back(x, IF i + 1 <= Len(x.d) THEN x.d[i + 1] ELSE 0)
         IN IF ~y.r THEN y ELSE assign_alias_loop(y, str_len, i + 1)

assign_ustring_aliased(x, src) == assign_alias_loop(uv_clear(x), size(src), 0)

\* assign(ustring str)
assign_ustring(x, src) ==
    LET str == copy_ctor(x, src)
    IN assign_len(uv_clear(After(x, str)), str.d, size(str))

\* operator=(const ustring&), other being a different object.
op_assign(x, string) ==
    [copy_loop([x EXCEPT !.heap = string.heap], string, 0) EXCEPT !.r = TRUE]

\* operator=(const ustring&) with &string == this.
op_assign_self(x) == [x EXCEPT !.r = TRUE]

\* ~ustring(): empty, the container's destructor runs.
dtor(x) == uv_dtor(x)

\* ustring(heap_t*)
ctor_heap(x, h) == Fresh(x, h)

\* ustring(uint32_t, heap_t*)
ctor_sized(x, _size, h) == resize1(Fresh(x, h), _size)

\* ustring(const char*, heap_t*)
ctor_cstr(x, str, h) == assign_cstr(Fresh(x, h), str)

\* The two copying loops of operator+: push_back of src.at(i) for i < len,
\* results dropped.
RECURSIVE plus_loop(_, _, _, _)
plus_loop(x, src, len, i) ==
    IF i >= len THEN x
    ELSE plus_loop(push_back(x, at(src, i)), src, len, i + 1)

\* A variant of operator+(ustring&) that keeps what the sized constructor
\* left in new_string.
op_plus_uncleared(x, str) ==
    LET new_string == ctor_sized(x, size(x) + size(str), x.heap)
    IN plus_loop(plus_loop(new_string, x, size(x), 0), str, size(str), 0)

\* operator+(ustring &str): x is *this, the result is new_string.
op_plus(x, str) ==
    LET new_string == clear(ctor_sized(x, size(x) + size(str), x.heap))
    IN plus_loop(plus_loop(new_string, x, size(x), 0), str, size(str), 0)

\* operator+(const char *str): str is the run before the terminator.
op_plus_cstr(x, str) ==
    LET new_string == clear(ctor_sized(x, size(x) + Len(str), x.heap))
    IN plus_loop(plus_loop(new_string, x, size(x), 0), [d |-> str], Len(str), 0)

\* ------------------------------------------------------------- the program
\* Two ustring objects a and b; every step is one completed call.  op, arg
\* and ret record the last call, its arguments and its result; refused tells
\* whether the heap refused a request made during it; sum is the object the
\* last call returned by value, if it returned one.
\* lost tells whether the last call handed a block back to a heap it did not
\* come from, wild whether it wrote an element of an empty container.
VARIABLES a, b, op, arg, ret, refused, sum, lost, wild

vars == <<a, b, op, arg, ret, refused, sum, lost, wild>>

Buf(x) == [d |-> x.d, n |-> x.n, heap |-> x.heap, blk |-> x.blk, from |-> x.from]

\* Block identities matter up to renaming: between calls an object's own block
\* is called own (1 for a, 2 for b), and a block it shares with the other
\* object keeps the other's name.
Settle(u, other, own) ==
    [u EXCEPT !.blk = IF @ = 0 \/ @ = other.blk THEN @
                      ELSE IF other.blk = own THEN 3 - own ELSE own]

\* What a call that ended in context y did to the other object: nothing,
\* unless both refer to the same block, whose bytes are then y's.
Seen(other, y) ==
    IF other.blk # 0 /\ other.blk = y.blk THEN [other EXCEPT !.d = y.d] ELSE other

\* The context in which a call on object u runs.
Ctx(u, f, g) == [d |-> u.d, n |-> u.n, heap |-> u.heap, blk |-> u.blk,
                 from |-> u.from, lost |-> FALSE, wild |-> FALSE,
                 fate |-> f, refused |-> FALSE, g |-> g, r |-> TRUE]

\* No returned object.
NoSum == [d |-> <<>>, n |-> 0, heap |-> 0, blk |-> 0, from |-> 0]

NoArg == [str |-> <<>>, k |-> 0, v |-> 0, src |-> "-"]

\* Null-delimited arguments (the run before the terminator) and raw byte runs.
\* Arguments of reserve and resize: small sizes and the largest uint32_t.
Targets == (0..MaxTarget) \cup {Max32}

CStrings == Runs(Letter, MaxStr)
ByteRuns == Runs(Byte, MaxStr)

Init ==
    /\ a = [d |-> <<>>, n |-> 0, heap |-> 1, blk |-> 0, from |-> 0]
    /\ b = [d |-> <<>>, n |-> 0, heap |-> 2, blk |-> 0, from |-> 0]
    /\ op = "ustring"
    /\ arg = NoArg
    /\ ret = TRUE
    /\ refused = FALSE
    /\ sum = NoSum
    /\ lost = FALSE
    /\ wild = FALSE

\* A call on a that ends in context y.
Done(name, args, y, lim) ==
    /\ Len(y.d) <= lim
    /\ a' = Settle(Buf(y), b, 1)
    /\ op' = name
    /\ arg' = args
    /\ ret' = y.r
    /\ refused' = y.refused
    /\ b' = Seen(b, y)
    /\ sum' = NoSum
    /\ lost' = y.lost
    /\ wild' = y.wild

\* A call on b that ends in context y.
DoneOther(name, args, y, lim) ==
    /\ Len(y.d) <= lim
    /\ b' = Settle(Buf(y), a, 2)
    /\ op' = name
    /\ arg' = args
    /\ ret' = y.r
    /\ refused' = y.refused
    /\ a' = Seen(a, y)
    /\ sum' = NoSum
    /\ lost' = y.lost
    /\ wild' = y.wild

\* A call on a that returns the object of context y and leaves a and b alone.
DoneSum(name, args, y, lim) ==
    /\ Len(y.d) <= lim
    /\ sum' = Buf(y)
    /\ lost' = y.lost
    /\ wild' = y.wild
    /\ op' = name
    /\ arg' = args
    /\ ret' = TRUE
    /\ refused' = y.refused
    /\ a' = a
    /\ b' = b

\* The constructors build a anew: the object a was is destroyed first.
CtorHeap(f, g, lim) == Done("ustring", NoArg, ctor_heap(dtor(Ctx(a, f, g)), 1), lim)

CtorSized(f, g, lim) ==
    \E k \in 0..MaxTarget :
        Done("ustring_sized", [NoArg EXCEPT !.k = k], ctor_sized(dtor(Ctx(a, f, g)), k, 1), lim)

CtorCstr(f, g, lim) ==
    \E s \in CStrings :
        Done("ustring_cstr", [NoArg EXCEPT !.str = s], ctor_cstr(dtor(Ctx(a, f, g)), s, 1), lim)

\* a goes out of scope; what is left stands for no object.
Destroy(f, g, lim) == Done("~ustring", NoArg, dtor(Ctx(a, f, g)), lim)

PushBack(f, g, lim) ==
    \E c \in Byte :
        Done("push_back", [NoArg EXCEPT !.v = c], push_back(Ctx(a, f, g), c), lim)

PopBack(f, g, lim) == Done("pop_back", NoArg, pop_back(Ctx(a, f, g)), lim)

AppendCstr(f, g, lim) ==
    \E s \in CStrings :
        Done("append_cstr", [NoArg EXCEPT !.str = s], append_cstr(Ctx(a, f, g), s), lim)

AppendLen(f, g, lim) ==
    \E s \in ByteRuns : \E k \in {Len(s)} :
        Done("append_len", [NoArg EXCEPT !.str = s, !.k = k],
             append_len(Ctx(a, f, g), s, k), lim)

\* append(str, str_len) with str_len smaller than the run str points to.
AppendPrefix(f, g, lim) ==
    \E s \in ByteRuns : \E k \in 0..(Len(s) - 1) :
        Done("append_len", [NoArg EXCEPT !.str = s, !.k = k],
             append_len(Ctx(a, f, g), s, k), lim)

AppendCh(f, g, lim) ==
    \E c \in Byte :
        Done("append_ch", [NoArg EXCEPT !.v = c], append_ch(Ctx(a, f, g), c), lim)

AppendUstring(f, g, lim) ==
    Done("append_ustring", [NoArg EXCEPT !.src = "b"], append_ustring(Ctx(a, f, g), b), lim)

AppendSelf(f, g, lim) ==
    Done("append_ustring", [NoArg EXCEPT !.src = "a"], append_ustring(Ctx(a, f, g), a), lim)

PlusEqSelf(f, g, lim) ==
    Done("op_pluseq", [NoArg EXCEPT !.src = "a"], op_pluseq_ustring(Ctx(a, f, g), a), lim)

AssignCstr(f, g, lim) ==
    \E s \in CStrings :
        Done("assign_cstr", [NoArg EXCEPT !.str = s], assign_cstr(Ctx(a, f, g), s), lim)

AssignLen(f, g, lim) ==
    \E s \in ByteRuns : \E k \in {Len(s)} :
        Done("assign_len", [NoArg EXCEPT !.str = s, !.k = k],
             assign_len(Ctx(a, f, g), s, k), lim)

AssignUstring(f, g, lim) ==
    Done("assign_ustring", [NoArg EXCEPT !.src = "b"], assign_ustring(Ctx(a, f, g), b), lim)

AssignSelf(f, g, lim) ==
    Done("assign_ustring", [NoArg EXCEPT !.src = "a"], assign_ustring(Ctx(a, f, g), a), lim)

Resize(f, g, lim) ==
    \E k \in Targets, v \in Byte :
        Done("resize", [NoArg EXCEPT !.k = k, !.v = v], resize(Ctx(a, f, g), k, v), lim)

Reserve(f, g, lim) ==
    \E k \in Targets :
        Done("reserve", [NoArg EXCEPT !.k = k], reserve(Ctx(a, f, g), k), lim)

ShrinkToFit(f, g, lim) == Done("shrink_to_fit", NoArg, shrink_to_fit(Ctx(a, f, g)), lim)

Clear(f, g, lim) == Done("clear", NoArg, clear(Ctx(a, f, g)), lim)

OpAssign(f, g, lim) ==
    Done("op_assign", [NoArg EXCEPT !.src = "b"], op_assign(Ctx(a, f, g), b), lim)

OpAssignSelf(f, g, lim) ==
    Done("op_assign", [NoArg EXCEPT !.src = "a"], op_assign_self(Ctx(a, f, g)), lim)

\* a is built anew as a copy of b.
CopyCtor(f, g, lim) ==
    Done("ustring_copy", [NoArg EXCEPT !.src = "b"], copy_ctor(dtor(Ctx(a, f, g)), b), lim)

Write(f, g, lim) ==
    \E i \in 0..(size(a) - 1), v \in Byte :
        Done("write", [NoArg EXCEPT !.k = i, !.v = v], data_write(Ctx(a, f, g), i, v), lim)

OtherWrite(f, g, lim) ==
    \E i \in 0..(size(b) - 1), v \in Byte :
        DoneOther("b.write", [NoArg EXCEPT !.k = i, !.v = v],
                  data_write(Ctx(b, f, g), i, v), lim)

OpPlus(f, g, lim) ==
    DoneSum("op_plus", [NoArg EXCEPT !.src = "b"], op_plus(Ctx(a, f, g), b), lim)

OpPlusSelf(f, g, lim) ==
    DoneSum("op_plus", [NoArg EXCEPT !.src = "a"], op_plus(Ctx(a, f, g), a), lim)

OpPlusCstr(f, g, lim) ==
    \E s \in CStrings :
        DoneSum("op_plus_cstr", [NoArg EXCEPT !.str = s], op_plus_cstr(Ctx(a, f, g), s), lim)

\* The other object is built anew, and is given a content once.
OtherCtorHeap(f, g, lim) == DoneOther("b.ustring", NoArg, ctor_heap(dtor(Ctx(b, f, g)), 2), lim)

OtherAssignLen(f, g, lim) ==
    /\ capacity(b) = 0
    /\ \E s \in ByteRuns : \E k \in {Len(s)} :
          DoneOther("b.assign_len", [NoArg EXCEPT !.str = s, !.k = k],
                    assign_len(Ctx(b, f, g), s, k), lim)

\* The calls on one object.
Call(f, g, lim) ==
    \/ CtorHeap(f, g, lim)
    \/ CtorSized(f, g, lim)
    \/ CtorCstr(f, g, lim)
    \/ PushBack(f, g, lim)
    \/ PopBack(f, g, lim)
    \/ AppendCstr(f, g, lim)
    \/ AppendLen(f, g, lim)
    \/ AppendCh(f, g, lim)
    \/ AppendSelf(f, g, lim)
    \/ PlusEqSelf(f, g, lim)
    \/ AssignCstr(f, g, lim)
    \/ AssignLen(f, g, lim)
    \/ AssignSelf(f, g, lim)
    \/ Resize(f, g, lim)
    \/ Reserve(f, g, lim)
    \/ ShrinkToFit(f, g, lim)
    \/ Clear(f, g, lim)
    \/ OpAssignSelf(f, g, lim)

\* The calls that involve both objects, and those that give each a content.
CallTwo(f, g, lim) ==
    \/ AssignCstr(f, g, lim)
    \/ AssignLen(f, g, lim)
    \/ Clear(f, g, lim)
    \/ AppendUstring(f, g, lim)
    \/ AssignUstring(f, g, lim)
    \/ OpAssign(f, g, lim)
    \/ OtherCtorHeap(f, g, lim)
    \/ OtherAssignLen(f, g, lim)

\* One object, every allocation request granted.
Next == \E g \in Byte : Call(AllGranted, g, MaxCap)

Spec == Init /\ [][Next]_vars

\* One object, the heap may refuse requests; blocks of up to MaxCapFail bytes.
NextFail == \E f \in Fates, g \in Byte : Call(f, g, MaxCapFail)

SpecFail == Init /\ [][NextFail]_vars

\* Two objects, every allocation request granted.
NextTwo == \E g \in Byte : CallTwo(AllGranted, g, MaxCap)

SpecTwo == Init /\ [][NextTwo]_vars

\* The calls around operator+: both operands, on different heaps, are given a
\* content and are added.
CallPlus(f, g, lim) ==
    \/ AssignLen(f, g, lim)
    \/ Resize(f, g, lim)
    \/ CtorHeap(f, g, lim)
    \/ OpPlus(f, g, lim)
    \/ OpPlusSelf(f, g, lim)
    \/ OpPlusCstr(f, g, lim)
    \/ OtherCtorHeap(f, g, lim)
    \/ OtherAssignLen(f, g, lim)

NextPlus == \E g \in Byte : CallPlus(AllGranted, g, MaxCap)

SpecPlus == Init /\ [][NextPlus]_vars

\* The calls that append to one object, and those that bring it into the
\* states it is appended to in.
CallAppend(f, g, lim) ==
    \/ CtorHeap(f, g, lim)
    \/ AppendCstr(f, g, lim)
    \/ AppendLen(f, g, lim)
    \/ AppendPrefix(f, g, lim)
    \/ PopBack(f, g, lim)
    \/ Resize(f, g, lim)
    \/ Reserve(f, g, lim)
    \/ Clear(f, g, lim)

NextAppend == \E g \in Byte : CallAppend(AllGranted, g, MaxCap)

SpecAppend == Init /\ [][NextAppend]_vars

\* The calls that copy one object to the other and then change either.
CallCopy(f, g, lim) ==
    \/ CtorHeap(f, g, lim)
    \/ Destroy(f, g, lim)
    \/ CopyCtor(f, g, lim)
    \/ OpAssign(f, g, lim)
    \/ PushBack(f, g, lim)
    \/ PopBack(f, g, lim)
    \/ AppendCh(f, g, lim)
    \/ Resize(f, g, lim)
    \/ Clear(f, g, lim)
    \/ Write(f, g, lim)
    \/ OtherCtorHeap(f, g, lim)
    \/ OtherAssignLen(f, g, lim)
    \/ OtherWrite(f, g, lim)

NextCopy == \E g \in Byte : CallCopy(AllGranted, g, MaxCapCopy)

SpecCopy == Init /\ [][NextCopy]_vars

\* ------------------------------------------------------------- properties
\* The logical content: the first size() bytes of the storage.
Content(u) == SubSeq(u.d, 1, size(u))

\* The stored bytes end with the terminator (I1).
LastIsZero(u) == u.n > 0 => u.d[u.n] = 0

\* c_str()[size()] is the terminator.
CStrTerminated(u) == Len(u.d) > size(u) /\ u.d[size(u) + 1] = 0

\* C1: with every allocation granted, a non-empty byte sequence ends with a
\* zero byte and size() is the stored count minus one; an empty one has
\* size() 0.
C1_TerminatorInvariant ==
    /\ a.n > 0 => (a.d[a.n] = 0 /\ size(a) = a.n - 1)
    /\ a.n = 0 => size(a) = 0

\* C2: a successful resize(T, v) with T > size() leaves size() = T, the old
\* characters in place, v in the new positions and the terminator at index T;
\* the sized constructor yields size() = N.
C2_ResizeGrows ==
    [][/\ (op' = "resize" /\ arg'.k > size(a) /\ ret') =>
            /\ size(a') = arg'.k
            /\ SubSeq(a'.d, 1, size(a)) = Content(a)
            /\ \A i \in (size(a) + 1)..arg'.k : a'.d[i] = arg'.v
            /\ a'.d[arg'.k + 1] = 0
       /\ (op' = "ustring_sized" /\ ret') => size(a') = arg'.k]_vars

\* C3: resize(T) with T < size() returns true and leaves exactly the first T
\* characters.
C3_ResizeShrinks ==
    [][(op' = "resize" /\ arg'.k < size(a)) =>
            /\ ret'
            /\ size(a') = arg'.k
            /\ Content(a') = SubSeq(Content(a), 1, arg'.k)]_vars

\* C4: after a = b (two objects) a holds b's content, whatever it held
\* before, is terminated, and b is unchanged.
C4_AssignmentReplaces ==
    [][(op' = "op_assign" /\ arg'.src = "b") =>
            /\ size(a') = size(b)
            /\ Content(a') = Content(b)
            /\ (size(a') > 0 => CStrTerminated(a'))
            /\ b' = b]_vars

\* C5: a == b exactly when the sizes agree and the bytes 0..size()-1 agree,
\* zero bytes in the content included; a != b is the negation.
C5_EqualityIsBytewise ==
    /\ op_eq(a, b) <=> (size(a) = size(b) /\ Content(a) = Content(b))
    /\ op_ne(a, b) <=> ~(size(a) = size(b) /\ Content(a) = Content(b))

BoolOps == {"push_back", "pop_back", "append_cstr", "append_len", "append_ch",
            "append_ustring", "op_pluseq", "assign_cstr", "assign_len",
            "assign_ustring", "resize", "reserve", "shrink_to_fit"}

\* C6: when the heap refused a request during a boolean operation, the byte
\* sequence still ends with the terminator on return.
C6_FailureKeepsInvariant ==
    (op \in BoolOps /\ refused) => LastIsZero(a)

\* C7: push_back, append, assign and resize return false whenever one of
\* their allocation requests was refused.
C7_RefusalIsReported ==
    (op \in BoolOps \ {"pop_back", "reserve", "shrink_to_fit"} /\ refused) => ~ret

\* C8: b.append(b) and b += b return true and leave the content twice.
C8_SelfAppendDoubles ==
    [][((op' = "append_ustring" \/ op' = "op_pluseq") /\ arg'.src = "a") =>
            /\ ret'
            /\ size(a') = 2 * size(a)
            /\ Content(a') = Content(a) \o Content(a)]_vars

\* A self-append of a two-character content that had to move the storage.
C8_Witness ==
    /\ op = "append_ustring"
    /\ arg.src = "a"
    /\ ret
    /\ Content(a) = <<1, 0, 1, 0>>
    /\ Len(a.d) = 8

\* C9: b.assign(b) returns true and b = b does nothing; content, size() and
\* terminator are as before.
C9_SelfAssignKeeps ==
    [][/\ (op' = "assign_ustring" /\ arg'.src = "a") =>
            /\ ret'
            /\ size(a') = size(a)
            /\ Content(a') = Content(a)
            /\ (CStrTerminated(a) => CStrTerminated(a'))
       /\ (op' = "op_assign" /\ arg'.src = "a") => a' = a]_vars

\* A self-assignment of a two-character content.
C9_Witness ==
    /\ op = "assign_ustring"
    /\ arg.src = "a"
    /\ ret
    /\ Content(a) = <<1, 1>>
    /\ CStrTerminated(a)

\* C10: whenever storage is allocated, c_str()[size()] is 0; right after
\* clear() c_str() is the empty string.
C10_CStrTerminated ==
    /\ Len(a.d) > 0 => CStrTerminated(a)
    /\ (op = "clear" /\ Len(a.d) > 0) => a.d[1] = 0

\* C11: a push_back(c) that returns true leaves the content followed by c,
\* size() one larger and a terminator after c, for c = 0 as well; k such calls
\* followed by m <= k calls of pop_back leave size() = L + k - m.
C11_PushBackAppends ==
    /\ [][(op' = "push_back" /\ ret') =>
            /\ size(a') = size(a) + 1
            /\ Content(a') = Content(a) \o <<arg'.v>>
            /\ CStrTerminated(a')]_vars
    /\ [](\A run \in ByteRuns : \A m \in 0..Len(run) : \A g \in Byte :
            LET y == pop_run(push_run(Ctx(a, AllGranted, g), run, 0), m)
            IN y.r /\ size(y) = size(a) + Len(run) - m)

\* push_back(0) on a one-character content.
C11_Witness ==
    /\ op = "push_back"
    /\ arg.v = 0
    /\ ret
    /\ Content(a) = <<1, 0>>
    /\ CStrTerminated(a)

\* C12: pop_back() on size() = 0 returns false and changes nothing; on
\* size() = L > 0 it returns true and leaves the first L - 1 characters,
\* terminated.
C12_PopBackRemovesLast ==
    [][op' = "pop_back" =>
            /\ size(a) = 0 => (~ret' /\ a' = a)
            /\ size(a) > 0 =>
                 /\ ret'
                 /\ size(a') = size(a) - 1
                 /\ Content(a') = Prefix(Content(a), size(a) - 1)
                 /\ CStrTerminated(a')]_vars

\* pop_back() took the second character of a two-character content away.
C12_Witness ==
    /\ op = "pop_back"
    /\ ret
    /\ Content(a) = <<1>>
    /\ a.n = 2
    /\ Len(a.d) >= 3

\* C13: empty() is true exactly when size() is 0.
C13_EmptyIffSizeZero == empty(a) <=> size(a) = 0

\* C14: on a non-empty buffer back() is the character at index size() - 1,
\* front() the one at index 0, and a write through back() changes the last
\* character and leaves the terminator in place.
C14_BackIsLastCharacter ==
    size(a) > 0 =>
        /\ back(a) = data_at(a, size(a) - 1)
        /\ front(a) = data_at(a, 0)
        /\ \A v \in Byte :
              LET y == back_assign(Ctx(a, AllGranted, 0), v)
              IN /\ Content(y) = Prefix(Content(a), size(a) - 1) \o <<v>>
                 /\ size(y) = size(a)
                 /\ y.d[size(y) + 1] = a.d[size(a) + 1]

C16_AssignReplaces ==
    [][/\ (op' = "assign_cstr" /\ ret') =>
            (size(a') = Len(arg'.str) /\ Content(a') = arg'.str)
       /\ (op' = "assign_len" /\ ret') =>
            (size(a') = arg'.k /\ Content(a') = Prefix(arg'.str, arg'.k))
       /\ (op' = "assign_ustring" /\ arg'.src = "b" /\ ret') =>
            (size(a') = size(b) /\ Content(a') = Content(b) /\ b' = b)]_vars

\* The other buffer's two bytes were assigned to a receiver whose storage was
\* larger than they need.
C16_Witness ==
    /\ op = "assign_ustring"
    /\ arg.src = "b"
    /\ ret
    /\ Content(b) = <<0, 1>>
    /\ Content(a) = <<0, 1>>
    /\ Len(a.d) = 8

\* C17: append("") and assign("") return false and leave content, size() and
\* capacity() as they were.
C17_EmptyCStringRefused ==
    [][((op' = "append_cstr" \/ op' = "assign_cstr") /\ arg'.str = <<>>) =>
            /\ ~ret'
            /\ Content(a') = Content(a)
            /\ size(a') = size(a)
            /\ capacity(a') = capacity(a)
            /\ a' = a]_vars

\* assign("") was refused on a two-character content.
C17_Witness ==
    /\ op = "assign_cstr"
    /\ arg.str = <<>>
    /\ ~ret
    /\ Content(a) = <<1, 1>>
    /\ CStrTerminated(a)

\* C18: a + b, a + a and a + str return a buffer holding a's bytes followed by
\* the right operand's, of size() the sum of the two, bound to a's heap; a and
\* b are left as they were.
C18_PlusConcatenates ==
    /\ [](/\ (op = "op_plus" /\ arg.src = "b") =>
               /\ Content(sum) = Content(a) \o Content(b)
               /\ size(sum) = size(a) + size(b)
               /\ sum.heap = a.heap
          /\ (op = "op_plus" /\ arg.src = "a") =>
               /\ Content(sum) = Content(a) \o Content(a)
               /\ size(sum) = 2 * size(a)
               /\ sum.heap = a.heap
          /\ op = "op_plus_cstr" =>
               /\ Content(sum) = Content(a) \o arg.str
               /\ size(sum) = size(a) + Len(arg.str)
               /\ sum.heap = a.heap)
    /\ [][(op' = "op_plus" \/ op' = "op_plus_cstr") => (a' = a /\ b' = b)]_vars

\* a + b with a and b on different heaps, both holding content.
C18_Witness ==
    /\ op = "op_plus"
    /\ arg.src = "b"
    /\ Content(a) = <<1, 0>>
    /\ Content(b) = <<0, 1>>
    /\ a.heap # b.heap
    /\ Content(sum) = <<1, 0, 0, 1>>
    /\ sum.heap = a.heap

\* The calls on the other object.
OtherOps == {"b.ustring", "b.assign_len", "b.write"}

\* C19: the two buffers never refer to the same storage block, so that, also
\* after a was copy-constructed from b or assigned b, no call on a changes b
\* and no call on b changes a.
C19_CopiesAreIndependent ==
    /\ [](a.blk # 0 => a.blk # b.blk)
    /\ [][/\ op' \notin OtherOps => b' = b
          /\ op' \in OtherOps => a' = a]_vars

\* a, a copy of b (it is on b's heap), was written through data(): the two
\* contents now differ in a byte.
C19_Witness ==
    /\ op = "write"
    /\ a.heap = 2
    /\ a.heap = b.heap
    /\ Content(b) = <<1, 1>>
    /\ Content(a) = <<1, 0>>
    /\ a.blk # 0
    /\ b.blk # 0

\* C20: a copy-constructed buffer has the content, the size and the heap of
\* its source, and after a = b a is bound to b's heap.
C20_CopyInheritsArena ==
    /\ op = "ustring_copy" =>
         /\ Content(a) = Content(b)
         /\ size(a) = size(b)
         /\ a.heap = b.heap
    /\ (op = "op_assign" /\ arg.src = "b") => a.heap = b.heap

\* A copy of a two-byte source, on the source's heap.
C20_Witness ==
    /\ op = "ustring_copy"
    /\ Content(b) = <<0, 1>>
    /\ Content(a) = <<0, 1>>
    /\ a.heap = 2
    /\ b.heap = 2

\* C21: every block goes back to the heap it was requested from: no call,
\* the destructor included, hands a block to another heap.
C21_ReleasedToItsArena == ~lost

\* C22: == is reflexive and symmetric, two buffers of size() 0 are equal
\* whatever they went through, and != is the negation of ==.
C22_EqualityAlgebra ==
    /\ op_eq(a, a)
    /\ op_eq(b, b)
    /\ op_eq(a, b) <=> op_eq(b, a)
    /\ (size(a) = 0 /\ size(b) = 0) => op_eq(a, b)
    /\ op_ne(a, b) <=> ~op_eq(a, b)
    /\ op_ne(b, a) <=> ~op_eq(b, a)
    /\ ~op_ne(a, a)

\* a was popped down to empty and keeps its storage, b never had any: the two
\* are equal.
C22_Witness ==
    /\ op = "pop_back"
    /\ ret
    /\ size(a) = 0
    /\ a.n = 1
    /\ Len(b.d) = 0
    /\ op_eq(a, b)
    /\ op_eq(b, a)

\* C23: a reserve(n) that returns true leaves capacity() >= n, does not lower
\* capacity(), keeps content and size(); reserve(0) changes nothing.
C23_ReserveEnsuresCapacity ==
    [][(op' = "reserve" /\ ret') =>
            /\ capacity(a') >= arg'.k
            /\ capacity(a') >= capacity(a)
            /\ Content(a') = Content(a)
            /\ size(a') = size(a)
            /\ arg'.k = 0 => a' = a]_vars

\* C30: for n = 2^32 - 1, reserve(n) does not return true with capacity() < n,
\* and resize(n) neither returns true with size() # n nor writes the last
\* element of an empty byte sequence.
C30_NoWraparound ==
    /\ (op = "reserve" /\ arg.k = Max32 /\ ret) => capacity(a) >= Max32
    /\ (op = "resize" /\ arg.k = Max32) => ((ret => size(a) = Max32) /\ ~wild)

\* C24: a shrink_to_fit() that returns true keeps content and size() and
\* leaves capacity() at what the stored bytes need: size() + 1 when bytes are
\* stored, 0 when none is, and never more than before.
C24_ShrinkToFitExact ==
    [][(op' = "shrink_to_fit" /\ ret') =>
            /\ Content(a') = Content(a)
            /\ size(a') = size(a)
            /\ capacity(a') = (IF a.n = 0 THEN 0 ELSE size(a) + 1)
            /\ capacity(a') <= capacity(a)]_vars

\* shrink_to_fit() left a one-character buffer with exactly two bytes.
C24_Witness ==
    /\ op = "shrink_to_fit"
    /\ ret
    /\ Content(a) = <<1>>
    /\ capacity(a) = 2
    /\ CStrTerminated(a)

\* C25: clear() leaves size() = 0 and capacity() as it was, and what is
\* appended or pushed next is the whole content, terminated.
C25_ClearKeepsCapacity ==
    /\ [][op' = "clear" => (size(a') = 0 /\ capacity(a') = capacity(a))]_vars
    /\ [](op = "clear" =>
            \A g \in Byte :
               /\ \A c \in Byte :
                    LET y == push_back(Ctx(a, AllGranted, g), c)
                    IN y.r /\ Content(y) = <<c>> /\ CStrTerminated(y)
               /\ \A str \in CStrings \ {<<>>} :
                    LET y == append_cstr(Ctx(a, AllGranted, g), str)
                    IN y.r /\ Content(y) = str /\ CStrTerminated(y)
               /\ \A str \in ByteRuns \ {<<>>} :
                    LET y == append_len(Ctx(a, AllGranted, g), str, Len(str))
                    IN y.r /\ Content(y) = str /\ CStrTerminated(y))

\* clear() on a buffer whose storage still shows two characters.
C25_Witness ==
    /\ op = "clear"
    /\ size(a) = 0
    /\ a.n = 0
    /\ capacity(a) = 4
    /\ a.d[1] = 1
    /\ a.d[2] = 1

\* The calls that begin or end an object's life.
LifeOps == {"ustring", "ustring_sized", "ustring_cstr", "ustring_copy", "~ustring"}

\* C26 as stated: once the buffer has had storage, capacity() >= size() + 1
\* after every call on it.
C26_CapacityAfterAllocation ==
    [][(capacity(a) > 0 /\ op' \notin LifeOps /\ op' \notin OtherOps) =>
            capacity(a') >= size(a') + 1]_vars

\* C26, amended: whenever the buffer holds storage, capacity() >= size() + 1.
C26_CapacityWhileAllocated ==
    capacity(a) > 0 => capacity(a) >= size(a) + 1

\* A buffer whose storage is exactly its two characters and the terminator.
C26_Witness ==
    /\ op = "shrink_to_fit"
    /\ ret
    /\ size(a) = 2
    /\ capacity(a) = 3

\* C27: a resize(T) beyond the present length that needs more capacity and
\* whose reservation the heap refuses returns false and leaves the buffer as
\* it was.
C27_ResizeRefusedKeeps ==
    [][(op' = "resize" /\ arg'.k > size(a) /\ arg'.k >= capacity(a) /\ refused') =>
            /\ ~ret'
            /\ Content(a') = Content(a)
            /\ size(a') = size(a)
            /\ capacity(a') = capacity(a)
            /\ a' = a]_vars

\* resize(3) was refused on a one-character buffer.
C27_Witness ==
    /\ op = "resize"
    /\ arg.k = 3
    /\ refused
    /\ ~ret
    /\ Content(a) = <<1>>
    /\ capacity(a) = 2
    /\ CStrTerminated(a)

\* C28: when a buffer (b, or the receiver itself) is appended, the capacity
\* in which the first character is stored already holds the combined length,
\* and the last character is stored in the same capacity: no reallocation
\* between them.
C28_AppendPreReserved ==
    \A src \in {a, b} :
       size(src) > 0 =>
          LET x == Ctx(a, AllGranted, 0)
              str == copy_ctor(x, src)
              len == size(str)
              x0 == After(x, str)
              first == push_back_stored_in(x0, str.d[1])
              last == push_back_stored_in(append_len(x0, str.d, len - 1), str.d[len])
          IN /\ append_ustring(x, src).r
             /\ first >= size(a) + len
             /\ last = first

\* C29: a length of 0 and an empty source buffer are accepted: append(ptr, 0)
\* and append(empty buffer) return true and leave the receiver as it was,
\* assign(ptr, 0) and assign(empty buffer) return true and leave size() = 0.
C29_ZeroLengthSucceeds ==
    \A g \in Byte :
       LET x == Ctx(a, AllGranted, g)
       IN /\ \A str \in ByteRuns :
               /\ LET y == append_len(x, str, 0)
                  IN y.r /\ Buf(y) = a
               /\ LET y == assign_len(x, str, 0)
                  IN y.r /\ size(y) = 0 /\ Content(y) = <<>>
          /\ size(b) = 0 =>
               /\ LET y == append_ustring(x, b)
                  IN y.r /\ Buf(y) = a
               /\ LET y == assign_ustring(x, b)
                  IN y.r /\ size(y) = 0 /\ Content(y) = <<>>

\* An empty run was assigned to a buffer that held two characters, and the
\* empty b is there to be appended.
C29_Witness ==
    /\ op = "assign_len"
    /\ arg.k = 0
    /\ ret
    /\ size(a) = 0
    /\ capacity(a) >= 3
    /\ size(b) = 0

=============================================================================
